---- MODULE Spec2Model ----
(***************************************************************************)
(* State-machine model of the job orchestration core of gh-repo-stats'     *)
(* web UI (src/ui/services/github_stats.py) and of the two routes that     *)
(* drive it (src/ui/routes.py: api_analyze, api_cancel).                   *)
(*                                                                         *)
(* The service runs on one asyncio event loop: a coroutine runs without    *)
(* interruption from one await to the next.  Every action below is one     *)
(* such uninterrupted stretch of a coroutine, or one step of the child     *)
(* process / the operating system.                                         *)
(***************************************************************************)
EXTENDS Integers, Sequences, FiniteSets, TLC

(***************************************************************************)
(* Bounds of the model.                                                    *)
(***************************************************************************)
MaxLines == 2      \* lines a child writes, both streams together
FloodLines == 501  \* lines a child writes to stderr in SpecFlood
PipeCap == 1       \* lines an OS pipe holds before the writer blocks
TailLines == 11    \* lines a child writes to stderr in SpecTail
MaxJobs == 3       \* records in the registries get_recent_jobs is tried on
MaxRows == 2       \* lines of a CSV file after the header; records serialized

(***************************************************************************)
(* Program constants.                                                      *)
(***************************************************************************)
OutputKeep == 500  \* output_lines keeps the last 500 lines
TailKeep == 10     \* stderr_output[-10:]
SIGTERM == 15
SIGKILL == 9

JobIds == {1, 2}

(***************************************************************************)
(* Optional values: None is the empty tuple, Some(x) the one-tuple.        *)
(***************************************************************************)
None == <<>>
Some(x) == <<x>>
IsSome(o) == o # <<>>
Get(o) == o[1]

\* JobStatus
PENDING == "pending"
RUNNING == "running"
COMPLETED == "completed"
FAILED == "failed"
JobStatus == {PENDING, RUNNING, COMPLETED, FAILED}

(***************************************************************************)
(* A line of child output, after decode(...).strip(): its text, what each  *)
(* of the three compiled patterns of read_stderr finds in it (None: no     *)
(* match; otherwise the captured groups), and whether the raw line is      *)
(* longer than the StreamReader limit (readline() then raises ValueError). *)
(***************************************************************************)
Ln(text, repo, total, name) ==
    [text |-> text, repo_pattern |-> repo, total_pattern |-> total,
     repo_name_pattern |-> name, overrun |-> FALSE]

LineIndexed == Ln("Processing 1/2: a", Some(<<1, 2, Some("a")>>), None, None)
LineIndexedOver == Ln("Processing repo 3/2", Some(<<3, 2, None>>), None, None)
LineIndexedZero == Ln("processing 0/0", Some(<<0, 0, None>>), None, None)
LineFound == Ln("Found 2 repositories to analyze", None, Some(2), None)
LineAnalyzing == Ln("Analyzing repository 'b'", None, None, Some("b"))
LineFoundAnalyzing ==
    Ln("Found 1 repository, analyzing c", None, Some(1), Some("c"))
LineIndexedFloat ==
    Ln("Processing 29/50: d", Some(<<29, 50, Some("d")>>), None, None)
LineIndexedTenth ==
    Ln("Processing 3/10: widget-repo", Some(<<3, 10, Some("widget-repo")>>),
       None, None)
LineAllThree ==
    Ln("Found 5 repositories, processing 2/2: analyzing 'e'",
       Some(<<2, 2, Some("analyzing 'e'")>>), Some(5), Some("e"))
LinePlain == Ln("rate limit ok", None, None, None)
LineBlank == Ln("", None, None, None)
LineOverrun == [Ln("<64 KiB without newline>", None, None, None)
                    EXCEPT !.overrun = TRUE]

StderrLines ==
    {LineIndexed, LineIndexedOver, LineIndexedZero, LineIndexedFloat,
     LineIndexedTenth, LineFound, LineAnalyzing, LineFoundAnalyzing,
     LineAllThree, LinePlain, LineBlank, LineOverrun}
StdoutLines == {LinePlain, LineBlank, LineOverrun}

(***************************************************************************)
(* int((job.processed_repos / job.total_repos) * 100), as CPython computes *)
(* it: "/" is IEEE-754 binary64 division of the two integers, "* 100" a    *)
(* binary64 multiplication, both rounded to nearest (ties to even), and    *)
(* int() truncates.  A binary64 value is <<mant, exp>>: mant the 53        *)
(* significand bits, least significant first, standing for mant * 2^exp.   *)
(* Bit strings keep every intermediate value exact within TLC's integers.  *)
(***************************************************************************)
MantBits == 53
LimbBits == 20     \* bit strings are multiplied in pieces of 20 bits

RECURSIVE Normalize(_, _, _)
\* <<p', t', e>> with p/t = (p'/t') * 2^e and 1 <= p'/t' < 2
Normalize(p, t, e) ==
    IF p < t THEN Normalize(2 * p, t, e - 1)
    ELSE IF p >= 2 * t THEN Normalize(p, 2 * t, e + 1)
    ELSE <<p, t, e>>

RECURSIVE Pow2Mod(_, _)
\* 2^k mod t
Pow2Mod(k, t) ==
    IF k = 0 THEN 1 % t
    ELSE IF k % 2 = 0
         THEN LET h == Pow2Mod(k \div 2, t) IN (h * h) % t
         ELSE (2 * Pow2Mod(k - 1, t)) % t

\* what is left of r/t (r < t) after k bits of its binary expansion
Remainder(r, t, k) == (r * Pow2Mod(k, t)) % t

\* the first k bits of the binary expansion of r/t (r < t), lowest bit first
QuotientBits(r, t, k) ==
    [i \in 1..k |-> (2 * Remainder(r, t, k - i)) \div t]

\* bits + 1
Inc(bits) ==
    IF \A i \in 1..Len(bits) : bits[i] = 1
    THEN [i \in 1..Len(bits) |-> 0] \o <<1>>
    ELSE LET z == CHOOSE i \in 1..Len(bits) :
                    bits[i] = 0 /\ \A k \in 1..(i - 1) : bits[k] = 1
         IN  [i \in 1..Len(bits) |->
                IF i < z THEN 0 ELSE IF i = z THEN 1 ELSE bits[i]]

\* bits * 2^exp rounded to MantBits significant bits, to nearest, ties to even
RoundNearestEven(bits, exp) ==
    LET d == Len(bits) - MantBits
        kept == SubSeq(bits, d + 1, Len(bits))
        guard == IF d >= 1 THEN bits[d] ELSE 0
        sticky == \E i \in 1..(d - 1) : bits[i] = 1
        up == guard = 1 /\ (sticky \/ kept[1] = 1)
        r == IF up THEN Inc(kept) ELSE kept
    IN  IF Len(r) > MantBits THEN <<Tail(r), exp + d + 1>> ELSE <<r, exp + d>>

\* float(p) / float(t) for integers p > 0, t > 0
FloatDiv(p, t) ==
    LET n == Normalize(p, t, 0)
        r0 == n[1] - n[2]
        q == Append(QuotientBits(r0, n[2], MantBits), 1)
        sticky == IF Remainder(r0, n[2], MantBits) > 0 THEN 1 ELSE 0
    IN  RoundNearestEven(<<sticky>> \o q, n[3] - MantBits - 1)

RECURSIVE BitsToInt(_)
BitsToInt(bits) ==
    IF bits = <<>> THEN 0 ELSE Head(bits) + 2 * BitsToInt(Tail(bits))

\* the k lowest bits of v
IntToBits(v, k) == [i \in 1..k |-> (v \div 2^(i - 1)) % 2]

\* bits without its leading (highest) zeros
Trim(bits) ==
    IF \A i \in 1..Len(bits) : bits[i] = 0 THEN <<>>
    ELSE SubSeq(bits, 1, CHOOSE n \in 1..Len(bits) :
                    bits[n] = 1 /\ \A k \in (n + 1)..Len(bits) : bits[k] = 0)

\* bits * c, exactly: three limbs with carries
MulBits(bits, c) ==
    LET limb(k) == BitsToInt(SubSeq(bits, k * LimbBits + 1,
                        IF (k + 1) * LimbBits < Len(bits)
                        THEN (k + 1) * LimbBits ELSE Len(bits)))
        p0 == limb(0) * c
        p1 == limb(1) * c + p0 \div 2^LimbBits
        p2 == limb(2) * c + p1 \div 2^LimbBits
    IN  IntToBits(p0 % 2^LimbBits, LimbBits)
            \o IntToBits(p1 % 2^LimbBits, LimbBits)
            \o Trim(IntToBits(p2, LimbBits + 10))

\* x * c for a binary64 x > 0 and an integer 0 < c < 1024
FloatMul(x, c) == RoundNearestEven(MulBits(x[1], c), x[2])

\* int(x) for a binary64 0 < x < 2^31
FloatTrunc(x) ==
    IF -x[2] >= MantBits THEN 0
    ELSE BitsToInt(SubSeq(x[1], 1 - x[2], MantBits))

\* int((processed / total) * 100) in binary64, total > 0
FloatPercent(processed, total) ==
    IF processed = 0 THEN 0
    ELSE FloatTrunc(FloatMul(FloatDiv(processed, total), 100))

\* FloatPercent tabulated over the small arguments, so that it is evaluated
\* once per argument pair.
PercentTable ==
    {<<p, t, FloatPercent(p, t)>> :
        p \in 0..(MaxLines + 3), t \in 1..(MaxLines + 3)}

\* int((processed / total) * 100), total > 0
ProgressPercent(processed, total) ==
    IF \E r \in PercentTable : r[1] = processed /\ r[2] = total
    THEN (CHOOSE r \in PercentTable : r[1] = processed /\ r[2] = total)[3]
    ELSE FloatPercent(processed, total)

\* One entry of job.output_lines: the stream tag and the text.
OutLine(tag, text) == [tag |-> tag, text |-> text]
CancelMarker == OutLine("", ">>> Analysis cancelled by user <<<")

\* job.message values: kind and the values formatted into it.
Msg(kind, p, t, name) == <<kind, p, t, name>>
MsgEmpty == Msg("", 0, 0, "")
MsgStarting == Msg("Starting analysis...", 0, 0, "")
MsgRunning == Msg("Running analysis on {orgs}...", 0, 0, "")
MsgCancelling == Msg("Cancelling...", 0, 0, "")
MsgCancelled == Msg("Analysis cancelled by user", 0, 0, "")
MsgFailed == Msg("Analysis failed", 0, 0, "")
MsgNoFile == Msg("Analysis complete but no output file found.", 0, 0, "")
MsgComplete(n) == Msg("Analysis complete. Found {n} repositories.", n, 0, "")
MsgException(e) == Msg("Analysis failed: {e}", 0, 0, e)

\* One entry of job.errors.
Err(kind, code, tail) == [kind |-> kind, code |-> code, tail |-> tail]

\* AnalysisConfig: the fields run_analysis branches on.
Config(orgs, repos) == [organizations |-> orgs, repo_list |-> repos]
Configs ==
    {Config(<<"org1">>, <<>>), Config(<<"org1", "org2">>, <<"r1">>)}

\* The artifacts a run may leave in its working directory.
Cell(text) == Some(text)
CsvFile(rows) == [readable |-> TRUE, rows |-> rows]
RowOne ==
    [Repo_Name |-> Cell(<<"a">>), Record_Count |-> Cell(<<"7">>),
     Is_Empty |-> Cell(<<"T", "r", "u", "e">>)]
Artifacts == {CsvFile(<<>>), CsvFile(<<RowOne>>)}

VARIABLES
    env,            \* what the environment does in this universe (fixed)
    jobs,           \* _jobs: job_id -> AnalysisJob
    now,            \* the clock datetime.now() reads
    pc,             \* where each job's run_analysis task stands
    rerr,           \* where each job's read_stderr task stands
    rout,           \* where each job's read_stdout task stands
    stderr_output,  \* run_analysis' local list stderr_output
    child,          \* the child process of each job
    perr,           \* the child's stderr pipe: lines written, not yet read
    pout,           \* the child's stdout pipe
    cpc,            \* where each job's cancel_job call stands
    cret,           \* what the last cancel_job call on the job returned
    requests,       \* the api_analyze requests handled so far
    order,          \* _jobs: its keys in insertion order
    listed,         \* what the last get_recent_jobs call returned
    called          \* the last call of a function on analysis results

vars == <<env, jobs, now, pc, rerr, rout, stderr_output, child, perr, pout,
          cpc, cret, requests, order, listed, called>>

(***************************************************************************)
(* AnalysisJob(job_id=..., config=..., status=PENDING): the dataclass      *)
(* defaults.                                                               *)
(***************************************************************************)
AnalysisJob(job_id, config) ==
    [job_id |-> job_id,
     status |-> PENDING,
     config |-> config,
     progress |-> 0,
     message |-> MsgEmpty,
     results |-> <<>>,
     errors |-> <<>>,
     started_at |-> None,
     completed_at |-> None,
     output_file |-> None,
     current_repo |-> None,
     total_repos |-> 0,
     processed_repos |-> 0,
     output_lines |-> <<>>,
     _process |-> None,
     cancelled |-> FALSE]

NoChild == [state |-> "none", returncode |-> None, written |-> 0,
            stdout |-> 0, sigterm |-> FALSE]

InitWith(e) ==
    /\ env = e
    /\ jobs = <<>>
    /\ order = <<>>
    /\ listed = <<>>
    /\ called = <<>>
    /\ now = 1
    /\ pc = [j \in JobIds |-> "none"]
    /\ rerr = [j \in JobIds |-> "none"]
    /\ rout = [j \in JobIds |-> "none"]
    /\ stderr_output = [j \in JobIds |-> <<>>]
    /\ child = [j \in JobIds |-> NoChild]
    /\ perr = [j \in JobIds |-> <<>>]
    /\ pout = [j \in JobIds |-> <<>>]
    /\ cpc = [j \in JobIds |-> "idle"]
    /\ cret = [j \in JobIds |-> None]
    /\ requests = 0

Job(j) == jobs[j]
Exists(j) == j \in DOMAIN jobs

\* get_job: _jobs.get(job_id)
get_job(job_id) == IF job_id \in DOMAIN jobs THEN Some(jobs[job_id]) ELSE None

\* create_job that starts a new registry instead of adding to the old one
create_job_new_registry(job_id, config) ==
    (job_id :> AnalysisJob(job_id, config))

\* create_job: the registry with a fresh PENDING record stored under job_id
create_job(job_id, config) == (job_id :> AnalysisJob(job_id, config)) @@ jobs

\* secrets.token_urlsafe(16): a fresh 128-bit token
token_urlsafe == env.ids \ DOMAIN jobs

\* api_analyze without the "if not organizations" test
api_analyze_unchecked(config) ==
    /\ requests < Cardinality(env.ids)
    /\ \E job_id \in token_urlsafe :
        /\ jobs' = create_job(job_id, config)
        /\ order' = Append(order, job_id)
        /\ pc' = [pc EXCEPT ![job_id] = "start"]
    /\ requests' = requests + 1
    /\ UNCHANGED <<env, called, listed, now, rerr, rout, stderr_output, child,
                   perr, pout, cpc, cret>>

(***************************************************************************)
(* api_analyze (routes.py): reject a request without organizations, else   *)
(* create the job and schedule run_analysis as a task.                     *)
(***************************************************************************)
api_analyze(config) ==
    /\ requests < Cardinality(env.ids)
    /\ config.organizations # <<>>
    /\ \E job_id \in token_urlsafe :
        /\ jobs' = create_job(job_id, config)
        /\ order' = Append(order, job_id)
        /\ pc' = [pc EXCEPT ![job_id] = "start"]
    /\ requests' = requests + 1
    /\ UNCHANGED <<env, called, listed, now, rerr, rout, stderr_output, child,
                   perr, pout, cpc, cret>>

api_analyze_rejected(config) ==
    /\ requests < Cardinality(env.ids)
    /\ config.organizations = <<>>
    /\ requests' = requests + 1
    /\ UNCHANGED <<env, called, order, listed, jobs, now, pc, rerr, rout,
                   stderr_output, child, perr, pout, cpc, cret>>

\* the handler without "job.errors.append(str(e))"
ExceptHandler_no_append(job, e, t) ==
    [job EXCEPT !.status = FAILED,
                !.message = MsgException(e),
                !.current_repo = None,
                !.completed_at = Some(t)]

(***************************************************************************)
(* The handler "except Exception as e" of run_analysis.                    *)
(***************************************************************************)
ExceptHandler(job, e, t) ==
    [job EXCEPT !.status = FAILED,
                !.errors = Append(@, Err("exception", 0, <<e>>)),
                !.message = MsgException(e),
                !.current_repo = None,
                !.completed_at = Some(t)]

(***************************************************************************)
(* run_analysis, from its call to "await create_subprocess_exec": the job  *)
(* becomes RUNNING, the temporary directory and the input files are        *)
(* written (which may raise OSError), the command line is built.           *)
(***************************************************************************)
Prepared(job, t) ==
    [job EXCEPT !.status = RUNNING,
                !.started_at = Some(t),
                !.total_repos = IF job.config.repo_list # <<>>
                                THEN Len(job.config.repo_list) ELSE @,
                !.message = MsgRunning]

run_analysis_start(j) ==
    /\ pc[j] = "start"
    /\ Exists(j)
    /\ \/ /\ jobs' = [jobs EXCEPT ![j] = Prepared(@, now)]
          /\ pc' = [pc EXCEPT ![j] = "spawn"]
          /\ now' = now + 1
       \/ /\ jobs' = [jobs EXCEPT ![j] =
                ExceptHandler([@ EXCEPT !.status = RUNNING,
                                        !.started_at = Some(now),
                                        !.message = MsgStarting],
                              "OSError", now + 1)]
          /\ pc' = [pc EXCEPT ![j] = "done"]
          /\ now' = now + 2
    /\ UNCHANGED <<env, called, order, listed, requests, rerr, rout,
                   stderr_output, child, perr, pout, cpc, cret>>

(***************************************************************************)
(* create_subprocess_exec returns: the handle is stored, stderr_output is  *)
(* created and gather() schedules the two readers; or it raises (the       *)
(* script is missing or not executable).                                   *)
(***************************************************************************)
run_analysis_spawned(j) ==
    /\ pc[j] = "spawn"
    /\ \/ /\ child' = [child EXCEPT ![j] = [NoChild EXCEPT !.state = "alive"]]
          /\ jobs' = [jobs EXCEPT ![j]._process = Some(j)]
          /\ stderr_output' = [stderr_output EXCEPT ![j] = <<>>]
          /\ rerr' = [rerr EXCEPT ![j] = "start"]
          /\ rout' = [rout EXCEPT ![j] = "reading"]
          /\ pc' = [pc EXCEPT ![j] = "gather"]
          /\ UNCHANGED now
       \/ /\ jobs' = [jobs EXCEPT ![j] =
                        ExceptHandler(@, "FileNotFoundError", now)]
          /\ pc' = [pc EXCEPT ![j] = "done"]
          /\ now' = now + 1
          /\ UNCHANGED <<child, stderr_output, rerr, rout>>
    /\ UNCHANGED <<env, called, order, listed, requests, perr, pout, cpc,
                   cret>>

\* AppendOutput that trims without appending
AppendOutput_not_appended(lines, entry) ==
    IF Len(lines) > OutputKeep
    THEN SubSeq(lines, Len(lines) - OutputKeep + 1, Len(lines))
    ELSE lines

(***************************************************************************)
(* job.output_lines.append(entry), then keep the last 500.                 *)
(***************************************************************************)
AppendOutput(lines, entry) ==
    LET a == Append(lines, entry)
    IN  IF Len(a) > OutputKeep
        THEN SubSeq(a, Len(a) - OutputKeep + 1, Len(a))
        ELSE a

OrFetching(repo) ==
    IF IsSome(repo) /\ Get(repo) # "" THEN Get(repo) ELSE "fetching..."

\* ApplyStderrLine with progress recomputed when the total is found
ApplyStderrLine_total_recomputes(job, line) ==
    LET shown == IF line.text # ""
                 THEN [job EXCEPT !.output_lines =
                                     AppendOutput(@, OutLine("", line.text))]
                 ELSE job
    IN  IF IsSome(line.repo_pattern) THEN
            LET g == Get(line.repo_pattern)
                repo == IF IsSome(g[3]) THEN g[3] ELSE job.current_repo
            IN  [shown EXCEPT
                    !.processed_repos = g[1],
                    !.total_repos = g[2],
                    !.current_repo = repo,
                    !.progress = IF g[2] > 0
                                 THEN ProgressPercent(g[1], g[2]) ELSE @,
                    !.message = Msg("Processing {p}/{t}: {repo}", g[1], g[2],
                                    OrFetching(repo))]
        ELSE IF IsSome(line.total_pattern) THEN
            LET n == Get(line.total_pattern)
            IN  [shown EXCEPT
                    !.total_repos = n,
                    !.progress = IF n > 0
                                 THEN ProgressPercent(job.processed_repos, n)
                                 ELSE @,
                    !.message = Msg("Found {t} repositories to analyze...",
                                    0, n, "")]
        ELSE IF IsSome(line.repo_name_pattern) THEN
            LET name == Get(line.repo_name_pattern)
            IN  [shown EXCEPT
                    !.current_repo = Some(name),
                    !.processed_repos = @ + 1,
                    !.progress = IF job.total_repos > 0
                                 THEN ProgressPercent(job.processed_repos + 1,
                                                      job.total_repos)
                                 ELSE @,
                    !.message = Msg("Analyzing: {repo}", 0, 0, name)]
        ELSE shown

\* ApplyStderrLine with the three patterns tried one after the other,
\* without "continue"
ApplyStderrLine_falls_through(job, line) ==
    LET shown == IF line.text # ""
                 THEN [job EXCEPT !.output_lines =
                                     AppendOutput(@, OutLine("", line.text))]
                 ELSE job
        first == IF IsSome(line.repo_pattern) THEN
                    LET g == Get(line.repo_pattern)
                        repo == IF IsSome(g[3]) THEN g[3]
                                ELSE job.current_repo
                    IN  [shown EXCEPT
                            !.processed_repos = g[1],
                            !.total_repos = g[2],
                            !.current_repo = repo,
                            !.progress = IF g[2] > 0
                                         THEN ProgressPercent(g[1], g[2])
                                         ELSE @,
                            !.message = Msg("Processing {p}/{t}: {repo}",
                                            g[1], g[2], OrFetching(repo))]
                 ELSE shown
        second == IF IsSome(line.total_pattern) THEN
                    LET n == Get(line.total_pattern)
                    IN  [first EXCEPT
                            !.total_repos = n,
                            !.message =
                                Msg("Found {t} repositories to analyze...",
                                    0, n, "")]
                  ELSE first
    IN  IF IsSome(line.repo_name_pattern) THEN
            LET name == Get(line.repo_name_pattern)
            IN  [second EXCEPT
                    !.current_repo = Some(name),
                    !.processed_repos = @ + 1,
                    !.progress = IF second.total_repos > 0
                                 THEN ProgressPercent(
                                        second.processed_repos + 1,
                                        second.total_repos)
                                 ELSE @,
                    !.message = Msg("Analyzing: {repo}", 0, 0, name)]
        ELSE second

(***************************************************************************)
(* read_stderr's body for one decoded line: store it for display, then the *)
(* three patterns in turn.                                                 *)
(***************************************************************************)
ApplyStderrLine(job, line) ==
    LET shown == IF line.text # ""
                 THEN [job EXCEPT !.output_lines =
                                     AppendOutput(@, OutLine("", line.text))]
                 ELSE job
    IN  IF IsSome(line.repo_pattern) THEN
            LET g == Get(line.repo_pattern)
                repo == IF IsSome(g[3]) THEN g[3] ELSE job.current_repo
            IN  [shown EXCEPT
                    !.processed_repos = g[1],
                    !.total_repos = g[2],
                    !.current_repo = repo,
                    !.progress = IF g[2] > 0
                                 THEN ProgressPercent(g[1], g[2]) ELSE @,
                    !.message = Msg("Processing {p}/{t}: {repo}", g[1], g[2],
                                    OrFetching(repo))]
        ELSE IF IsSome(line.total_pattern) THEN
            LET n == Get(line.total_pattern)
            IN  [shown EXCEPT
                    !.total_repos = n,
                    !.message = Msg("Found {t} repositories to analyze...",
                                    0, n, "")]
        ELSE IF IsSome(line.repo_name_pattern) THEN
            LET name == Get(line.repo_name_pattern)
            IN  [shown EXCEPT
                    !.current_repo = Some(name),
                    !.processed_repos = @ + 1,
                    !.progress = IF job.total_repos > 0
                                 THEN ProgressPercent(job.processed_repos + 1,
                                                      job.total_repos)
                                 ELSE @,
                    !.message = Msg("Analyzing: {repo}", 0, 0, name)]
        ELSE shown

\* read_stdout's body storing the line without the "[stdout] " tag
ApplyStdoutLine_untagged(job, line) ==
    IF line.text # ""
    THEN [job EXCEPT !.output_lines = AppendOutput(@, OutLine("", line.text))]
    ELSE job

\* read_stdout's body for one decoded line
ApplyStdoutLine(job, line) ==
    IF line.text # ""
    THEN [job EXCEPT !.output_lines =
                        AppendOutput(@, OutLine("[stdout] ", line.text))]
    ELSE job

\* readline() returns b"" at end of stream: the writer is gone, the pipe empty
AtEOF(j, pipe) == child[j].state = "exited" /\ pipe[j] = <<>>

(***************************************************************************)
(* read_stderr: the task's first stretch, up to its first readline().      *)
(***************************************************************************)
read_stderr_start(j) ==
    /\ rerr[j] = "start"
    /\ rerr' = [rerr EXCEPT ![j] = IF Job(j).cancelled THEN "done"
                                   ELSE "reading"]
    /\ UNCHANGED <<env, called, order, listed, requests, jobs, now, pc, rout,
                   stderr_output, child, perr, pout, cpc, cret>>

\* read_stderr with stderr_output kept in one list shared by all jobs
read_stderr_shared_list(j) ==
    /\ rerr[j] = "reading"
    /\ \/ /\ perr[j] # <<>>
          /\ ~Head(perr[j]).overrun
          /\ perr' = [perr EXCEPT ![j] = Tail(@)]
          /\ stderr_output' = [k \in JobIds |->
                                  Append(stderr_output[k], Head(perr[j]).text)]
          /\ jobs' = [jobs EXCEPT ![j] = ApplyStderrLine(@, Head(perr[j]))]
          /\ rerr' = [rerr EXCEPT ![j] = IF Job(j).cancelled THEN "done"
                                         ELSE "reading"]
       \/ /\ perr[j] # <<>>
          /\ Head(perr[j]).overrun
          /\ perr' = [perr EXCEPT ![j] = Tail(@)]
          /\ rerr' = [rerr EXCEPT ![j] = "raised"]
          /\ UNCHANGED <<jobs, stderr_output>>
       \/ /\ AtEOF(j, perr)
          /\ rerr' = [rerr EXCEPT ![j] = "done"]
          /\ UNCHANGED <<jobs, stderr_output, perr>>
    /\ UNCHANGED <<env, called, order, listed, requests, now, pc, rout, child,
                   pout, cpc, cret>>

(***************************************************************************)
(* read_stderr: readline() returns; the line is handled and the loop runs  *)
(* on to the next readline(), or leaves at "if job.cancelled" or at end of *)
(* stream; or readline() raises.                                           *)
(***************************************************************************)
read_stderr(j) ==
    /\ rerr[j] = "reading"
    /\ \/ /\ perr[j] # <<>>
          /\ ~Head(perr[j]).overrun
          /\ perr' = [perr EXCEPT ![j] = Tail(@)]
          /\ stderr_output' = [stderr_output EXCEPT ![j] =
                                  Append(@, Head(perr[j]).text)]
          /\ jobs' = [jobs EXCEPT ![j] = ApplyStderrLine(@, Head(perr[j]))]
          /\ rerr' = [rerr EXCEPT ![j] = IF Job(j).cancelled THEN "done"
                                         ELSE "reading"]
       \/ /\ perr[j] # <<>>
          /\ Head(perr[j]).overrun
          /\ perr' = [perr EXCEPT ![j] = Tail(@)]
          /\ rerr' = [rerr EXCEPT ![j] = "raised"]
          /\ UNCHANGED <<jobs, stderr_output>>
       \/ /\ AtEOF(j, perr)
          /\ rerr' = [rerr EXCEPT ![j] = "done"]
          /\ UNCHANGED <<jobs, stderr_output, perr>>
    /\ UNCHANGED <<env, called, order, listed, requests, now, pc, rout, child,
                   pout, cpc, cret>>

(***************************************************************************)
(* read_stdout: the same loop without the cancellation check.  Its task    *)
(* is started after read_stderr's.                                         *)
(***************************************************************************)
read_stdout(j) ==
    /\ rout[j] = "reading"
    /\ rerr[j] # "start"
    /\ \/ /\ pout[j] # <<>>
          /\ ~Head(pout[j]).overrun
          /\ pout' = [pout EXCEPT ![j] = Tail(@)]
          /\ jobs' = [jobs EXCEPT ![j] = ApplyStdoutLine(@, Head(pout[j]))]
          /\ UNCHANGED rout
       \/ /\ pout[j] # <<>>
          /\ Head(pout[j]).overrun
          /\ pout' = [pout EXCEPT ![j] = Tail(@)]
          /\ rout' = [rout EXCEPT ![j] = "raised"]
          /\ UNCHANGED jobs
       \/ /\ AtEOF(j, pout)
          /\ rout' = [rout EXCEPT ![j] = "done"]
          /\ UNCHANGED <<jobs, pout>>
    /\ UNCHANGED <<env, called, order, listed, requests, now, pc, rerr,
                   stderr_output, child, perr, cpc, cret>>

(***************************************************************************)
(* parse_csv_results.  A file is [readable, rows]: whether open() works,   *)
(* and the rows csv.DictReader yields.  A row maps column names to cells;  *)
(* a cell is text, or None where the line was shorter than the header.     *)
(* Text is a tuple of characters.  A typed value is <<"int", n>>,          *)
(* <<"str", text>>, <<"bool", b>> or <<"none">>.                           *)
(***************************************************************************)
numeric_fields == {"Repo_Size(mb)", "Record_Count", "Issue_Count", "PR_Count"}
bool_fields == {"Is_Empty", "isFork", "isArchived", "Has_Wiki"}

Digit == [c \in {"0", "1", "2", "3", "4", "5", "6", "7", "8", "9"} |->
            CASE c = "0" -> 0 [] c = "1" -> 1 [] c = "2" -> 2 [] c = "3" -> 3
              [] c = "4" -> 4 [] c = "5" -> 5 [] c = "6" -> 6 [] c = "7" -> 7
              [] c = "8" -> 8 [] c = "9" -> 9]

IsDigits(text) ==
    text # <<>> /\ \A i \in 1..Len(text) : text[i] \in DOMAIN Digit

RECURSIVE DigitsValue(_)
DigitsValue(text) ==
    IF text = <<>> THEN 0
    ELSE DigitsValue(SubSeq(text, 1, Len(text) - 1)) * 10
            + Digit[text[Len(text)]]

\* int(text) succeeds
IsInt(text) ==
    \/ IsDigits(text)
    \/ text # <<>> /\ Head(text) \in {"-", "+"} /\ IsDigits(Tail(text))

\* int(text)
int(text) ==
    IF Head(text) = "-" THEN -DigitsValue(Tail(text))
    ELSE IF Head(text) = "+" THEN DigitsValue(Tail(text))
    ELSE DigitsValue(text)

\* c.lower()
LowerChar(c) ==
    CASE c = "T" -> "t" [] c = "R" -> "r" [] c = "U" -> "u" [] c = "E" -> "e"
      [] c = "F" -> "f" [] c = "A" -> "a" [] c = "L" -> "l" [] c = "S" -> "s"
      [] OTHER -> c

\* the text compared with "true" as it is, without .lower()
lower_not_applied(text) == text

\* text.lower()
lower(text) == [i \in 1..Len(text) |-> LowerChar(text[i])]

\* the code ends by raising the exception e
Raised(e) == [raised |-> e]

\* the two conversion loops on one row; they raise when row[field].lower()
\* meets None
ConvertRow(row) ==
    IF \E f \in bool_fields \cap DOMAIN row : row[f] = None
    THEN Raised("AttributeError")
    ELSE [f \in DOMAIN row |->
            IF f \in bool_fields
                THEN <<"bool", lower(Get(row[f])) = <<"t", "r", "u", "e">>>>
            ELSE IF row[f] = None THEN <<"none">>
            ELSE IF f \in numeric_fields /\ Get(row[f]) # <<>>
                                         /\ IsInt(Get(row[f]))
                THEN <<"int", int(Get(row[f]))>>
            ELSE <<"str", Get(row[f])>>]

RECURSIVE ConvertRows(_, _)
\* the "for row in reader" loop: results so far, rows still to read
ConvertRows(results, rows) ==
    IF rows = <<>> THEN results
    ELSE LET row == ConvertRow(Head(rows))
         IN  IF "raised" \in DOMAIN row THEN results
             ELSE ConvertRows(Append(results, row), Tail(rows))

parse_csv_results(csv_path) ==
    IF ~csv_path.readable THEN <<>> ELSE ConvertRows(<<>>, csv_path.rows)

(***************************************************************************)
(* A CSV text: the header line (the column names) and the lines after it,  *)
(* each line the texts of its cells; a blank line has no cell.  The empty  *)
(* string is the text without header and lines.  The cells met here hold   *)
(* no comma, quote or line break, so the csv module writes and reads them  *)
(* as they are.                                                            *)
(***************************************************************************)
CsvText(header, lines) == [header |-> header, lines |-> lines]
EmptyText == CsvText(<<>>, <<>>)

\* csv.DictReader(f): one dict per line that is not blank; a line shorter
\* than the header leaves the columns it lacks at None
DictReader(text) ==
    LET header == text.header
        body == SelectSeq(text.lines, LAMBDA line : line # <<>>)
        Index(f) == CHOOSE i \in 1..Len(header) : header[i] = f
    IN  [k \in 1..Len(body) |->
            [f \in {header[i] : i \in 1..Len(header)} |->
                IF Index(f) <= Len(body[k])
                THEN Cell(body[k][Index(f)]) ELSE None]]

\* a readable file holding the text
StringFile(text) == CsvFile(DictReader(text))

\* str(n) for an integer n
DigitChar == <<"0", "1", "2", "3", "4", "5", "6", "7", "8", "9">>

RECURSIVE Digits(_)
Digits(n) ==
    IF n < 10 THEN <<DigitChar[n + 1]>>
    ELSE Append(Digits(n \div 10), DigitChar[(n % 10) + 1])

\* what csv.DictWriter writes for a value: "" for None, else str(value)
str(value) ==
    CASE value[1] = "int" ->
            IF value[2] < 0 THEN <<"-">> \o Digits(-value[2])
            ELSE Digits(value[2])
      [] value[1] = "bool" ->
            IF value[2] THEN <<"T", "r", "u", "e">>
            ELSE <<"F", "a", "l", "s", "e">>
      [] value[1] = "str" -> value[2]
      [] value[1] = "none" -> <<>>

\* The columns of the script's CSV, in its order (as in SAMPLE_DATA).
csv_columns ==
    <<"Repo_Name", "Is_Empty", "isFork", "isArchived", "Repo_Size(mb)",
      "Record_Count", "Issue_Count", "PR_Count", "Has_Wiki",
      "Migration_Issue">>

\* row.keys(): the columns of a row, in the order of the file
keys(row) == SelectSeq(csv_columns, LAMBDA f : f \in DOMAIN row)

(***************************************************************************)
(* results_to_csv: "" for no results; else the header from the first       *)
(* record's keys and one line per record.  DictWriter raises ValueError on *)
(* a record with a key that the header lacks and writes "" for a key the   *)
(* record lacks.                                                           *)
(***************************************************************************)
results_to_csv(results) ==
    IF results = <<>> THEN EmptyText
    ELSE LET fieldnames == keys(results[1])
             names == {fieldnames[i] : i \in 1..Len(fieldnames)}
         IN  IF \E k \in 1..Len(results) : ~(DOMAIN results[k] \subseteq names)
             THEN Raised("ValueError")
             ELSE CsvText(fieldnames,
                    [k \in 1..Len(results) |->
                        [i \in 1..Len(fieldnames) |->
                            IF fieldnames[i] \in DOMAIN results[k]
                            THEN str(results[k][fieldnames[i]])
                            ELSE <<>>]])

(***************************************************************************)
(* calculate_summary.  "r.get(field, 0) or 0" is 0 for a missing key and   *)
(* for None, 0 and ""; sum() adds integers and raises TypeError on text.   *)
(* r.get("Migration_Issue", "").upper() raises AttributeError on None.     *)
(* round() rounds a half to the even neighbour.                            *)
(***************************************************************************)
UpperChar(c) ==
    CASE c = "t" -> "T" [] c = "r" -> "R" [] c = "u" -> "U" [] c = "e" -> "E"
      [] c = "f" -> "F" [] c = "a" -> "A" [] c = "l" -> "L" [] c = "s" -> "S"
      [] OTHER -> c
upper(text) == [i \in 1..Len(text) |-> UpperChar(text[i])]

\* r.get(field, default)
get(r, field, default) == IF field \in DOMAIN r THEN r[field] ELSE default

\* bool(value)
Truthy(value) ==
    CASE value[1] = "int" -> value[2] # 0
      [] value[1] = "bool" -> value[2]
      [] value[1] = "str" -> value[2] # <<>>
      [] value[1] = "none" -> FALSE

\* value or 0
OrZero(value) == IF Truthy(value) THEN value ELSE <<"int", 0>>

\* the terms of sum(r.get(field, 0) or 0 for r in results)
Terms(results, field) ==
    [k \in 1..Len(results) |-> OrZero(get(results[k], field, <<"int", 0>>))]

\* sum() raises: a term is text
SumRaises(results, field) ==
    \E k \in 1..Len(results) : Terms(results, field)[k][1] = "str"

RECURSIVE SumTerms(_)
SumTerms(terms) ==
    IF terms = <<>> THEN 0
    ELSE (IF Head(terms)[1] = "bool" THEN 1 ELSE Head(terms)[2])
            + SumTerms(Tail(terms))

Sum(results, field) == SumTerms(Terms(results, field))

\* sum(1 for r in results if r.get(field, False))
Count(results, field) ==
    Cardinality({k \in 1..Len(results) :
                    Truthy(get(results[k], field, <<"bool", FALSE>>))})

\* round(n / d), d > 0
round(n, d) ==
    LET q == n \div d
        r == n % d
    IN  IF 2 * r < d THEN q
        ELSE IF 2 * r > d THEN q + 1
        ELSE IF q % 2 = 0 THEN q ELSE q + 1

calculate_summary(results) ==
    IF results = <<>> THEN
        [total_repos |-> 0, total_size_mb |-> 0, repos_with_issues |-> 0,
         avg_record_count |-> 0, empty_repos |-> 0, archived_repos |-> 0,
         forked_repos |-> 0, total_prs |-> 0, total_issues |-> 0]
    ELSE IF SumRaises(results, "Repo_Size(mb)")
            \/ SumRaises(results, "Record_Count")
        THEN Raised("TypeError")
    ELSE IF \E k \in 1..Len(results) :
                get(results[k], "Migration_Issue", <<"str", <<>>>>)[1] # "str"
        THEN Raised("AttributeError")
    ELSE IF SumRaises(results, "PR_Count") \/ SumRaises(results, "Issue_Count")
        THEN Raised("TypeError")
    ELSE
        [total_repos |-> Len(results),
         total_size_mb |-> Sum(results, "Repo_Size(mb)"),
         repos_with_issues |->
            Cardinality({k \in 1..Len(results) :
                upper(get(results[k], "Migration_Issue", <<"str", <<>>>>)[2])
                    = <<"T", "R", "U", "E">>}),
         avg_record_count |-> round(Sum(results, "Record_Count"), Len(results)),
         empty_repos |-> Count(results, "Is_Empty"),
         archived_repos |-> Count(results, "isArchived"),
         forked_repos |-> Count(results, "isFork"),
         total_prs |-> Sum(results, "PR_Count"),
         total_issues |-> Sum(results, "Issue_Count")]

(***************************************************************************)
(* Calls of the three functions; "called" keeps the function, its argument *)
(* and what it returned.  The functions keep no state, so a behaviour      *)
(* makes one call on one input; calculate_summary is then given what       *)
(* parse_csv_results returned, as api_results gives it job.results.        *)
(***************************************************************************)
Call(fn, arg, ret) == [fn |-> fn, arg |-> arg, ret |-> ret]

parse_csv_results_call(files) ==
    /\ called = <<>>
    /\ \E csv_path \in files :
          called' = Call("parse_csv_results", csv_path,
                        parse_csv_results(csv_path))
    /\ UNCHANGED <<env, jobs, now, pc, rerr, rout, stderr_output, child, perr,
                   pout, cpc, cret, requests, order, listed>>

calculate_summary_call ==
    /\ called # <<>>
    /\ called.fn = "parse_csv_results"
    /\ called' = Call("calculate_summary", called.ret,
                      calculate_summary(called.ret))
    /\ UNCHANGED <<env, jobs, now, pc, rerr, rout, stderr_output, child, perr,
                   pout, cpc, cret, requests, order, listed>>

results_to_csv_call(records) ==
    /\ called = <<>>
    /\ \E results \in records :
          called' = Call("results_to_csv", results, results_to_csv(results))
    /\ UNCHANGED <<env, jobs, now, pc, rerr, rout, stderr_output, child, perr,
                   pout, cpc, cret, requests, order, listed>>

(***************************************************************************)
(* gather(read_stderr(), read_stdout()) returns once both readers have     *)
(* returned.  It raises as soon as one reader has raised, without waiting  *)
(* for the other or cancelling it: the exception leaves the "with" block   *)
(* and reaches the handler.                                                *)
(***************************************************************************)
gather(j) ==
    /\ pc[j] = "gather"
    /\ \/ /\ rerr[j] = "done"
          /\ rout[j] = "done"
          /\ pc' = [pc EXCEPT ![j] = "wait"]
          /\ UNCHANGED <<jobs, now>>
       \/ /\ "raised" \in {rerr[j], rout[j]}
          /\ jobs' = [jobs EXCEPT ![j] = ExceptHandler(@, "ValueError", now)]
          /\ now' = now + 1
          /\ pc' = [pc EXCEPT ![j] = "done"]
    /\ UNCHANGED <<env, called, order, listed, requests, rerr, rout,
                   stderr_output, child, perr, pout, cpc, cret>>

\* seq[:n] in the place of seq[-n:]
FirstN(seq, n) ==
    IF Len(seq) <= n THEN seq ELSE SubSeq(seq, 1, n)

\* seq[-n:]
LastN(seq, n) ==
    IF Len(seq) <= n THEN seq ELSE SubSeq(seq, Len(seq) - n + 1, Len(seq))

\* the cancelled branch without its message
Cancelled_message_kept(job, t) ==
    [job EXCEPT !.status = FAILED,
                !.output_lines = Append(@, CancelMarker),
                !.current_repo = None,
                !.completed_at = Some(t)]

\* "if job.cancelled:" after process.wait()
Cancelled(job, t) ==
    [job EXCEPT !.status = FAILED,
                !.message = MsgCancelled,
                !.output_lines = Append(@, CancelMarker),
                !.current_repo = None,
                !.completed_at = Some(t)]

\* "if process.returncode != 0:"
ScriptFailed(job, returncode, out, t) ==
    [job EXCEPT !.status = FAILED,
                !.errors =
                    IF out # <<>>
                    THEN @ \o <<Err("Script failed with code", returncode, <<>>),
                                Err("tail", 0, LastN(out, TailKeep))>>
                    ELSE Append(@, Err("Script failed with code", returncode,
                                       <<>>)),
                !.message = MsgFailed,
                !.current_repo = None,
                !.completed_at = Some(t)]

\* Completed without "job.progress = 100"
Completed_progress_kept(job, csv_files, t) ==
    LET found == IF csv_files # <<>>
                 THEN LET results == parse_csv_results(csv_files[1])
                      IN  [job EXCEPT !.output_file = Some(1),
                                      !.results = results,
                                      !.message = MsgComplete(Len(results)),
                                      !.processed_repos = Len(results),
                                      !.total_repos = Len(results)]
                 ELSE [job EXCEPT !.message = MsgNoFile]
    IN  [found EXCEPT !.status = COMPLETED,
                      !.current_repo = None,
                      !.completed_at = Some(t)]

\* the rest of the "with" block: csv_files is what glob() found
Completed(job, csv_files, t) ==
    LET found == IF csv_files # <<>>
                 THEN LET results == parse_csv_results(csv_files[1])
                      IN  [job EXCEPT !.output_file = Some(1),
                                      !.results = results,
                                      !.message = MsgComplete(Len(results)),
                                      !.processed_repos = Len(results),
                                      !.total_repos = Len(results)]
                 ELSE [job EXCEPT !.message = MsgNoFile]
    IN  [found EXCEPT !.status = COMPLETED,
                      !.progress = 100,
                      !.current_repo = None,
                      !.completed_at = Some(t)]

(***************************************************************************)
(* process_wait with the exit code tested before the cancellation flag.    *)
(***************************************************************************)
process_wait_exit_code_first(j) ==
    /\ pc[j] = "wait"
    /\ child[j].state = "exited"
    /\ LET job == [Job(j) EXCEPT !._process = None]
           returncode == Get(child[j].returncode)
       IN  \/ /\ returncode # 0
              /\ jobs' = [jobs EXCEPT ![j] =
                    ScriptFailed(job, returncode, stderr_output[j], now)]
           \/ /\ returncode = 0
              /\ job.cancelled
              /\ jobs' = [jobs EXCEPT ![j] = Cancelled(job, now)]
           \/ /\ returncode = 0
              /\ ~job.cancelled
              /\ \E csv_files \in {<<>>} \cup {<<f>> : f \in env.artifacts} :
                    jobs' = [jobs EXCEPT ![j] = Completed(job, csv_files, now)]
    /\ now' = now + 1
    /\ pc' = [pc EXCEPT ![j] = "cleanup"]
    /\ UNCHANGED <<env, called, order, listed, requests, rerr, rout,
                   stderr_output, child, perr, pout, cpc, cret>>

(***************************************************************************)
(* process_wait with the cancellation flag tested only after a non-zero    *)
(* exit code.                                                              *)
(***************************************************************************)
process_wait_zero_completes(j) ==
    /\ pc[j] = "wait"
    /\ child[j].state = "exited"
    /\ LET job == [Job(j) EXCEPT !._process = None]
           returncode == Get(child[j].returncode)
       IN  \/ /\ returncode # 0
              /\ job.cancelled
              /\ jobs' = [jobs EXCEPT ![j] = Cancelled(job, now)]
           \/ /\ returncode # 0
              /\ ~job.cancelled
              /\ jobs' = [jobs EXCEPT ![j] =
                    ScriptFailed(job, returncode, stderr_output[j], now)]
           \/ /\ returncode = 0
              /\ \E csv_files \in {<<>>} \cup {<<f>> : f \in env.artifacts} :
                    jobs' = [jobs EXCEPT ![j] = Completed(job, csv_files, now)]
    /\ now' = now + 1
    /\ pc' = [pc EXCEPT ![j] = "cleanup"]
    /\ UNCHANGED <<env, called, order, listed, requests, rerr, rout,
                   stderr_output, child, perr, pout, cpc, cret>>

(***************************************************************************)
(* process.wait() returns: the handle is cleared and the job ends by one   *)
(* of the three branches.  What is left is leaving the "with" block.       *)
(***************************************************************************)
process_wait(j) ==
    /\ pc[j] = "wait"
    /\ child[j].state = "exited"
    /\ LET job == [Job(j) EXCEPT !._process = None]
           returncode == Get(child[j].returncode)
       IN  \/ /\ job.cancelled
              /\ jobs' = [jobs EXCEPT ![j] = Cancelled(job, now)]
           \/ /\ ~job.cancelled
              /\ returncode # 0
              /\ jobs' = [jobs EXCEPT ![j] =
                    ScriptFailed(job, returncode, stderr_output[j], now)]
           \/ /\ ~job.cancelled
              /\ returncode = 0
              /\ \E csv_files \in {<<>>} \cup {<<f>> : f \in env.artifacts} :
                    jobs' = [jobs EXCEPT ![j] = Completed(job, csv_files, now)]
    /\ now' = now + 1
    /\ pc' = [pc EXCEPT ![j] = "cleanup"]
    /\ UNCHANGED <<env, called, order, listed, requests, rerr, rout,
                   stderr_output, child, perr, pout, cpc, cret>>

(***************************************************************************)
(* Leaving "with tempfile.TemporaryDirectory()": the directory is removed. *)
(* Removal may raise OSError (a file that cannot be deleted, a process     *)
(* still writing there); the exception reaches the handler.                *)
(***************************************************************************)
cleanup(j) ==
    /\ pc[j] = "cleanup"
    /\ \/ UNCHANGED <<jobs, now>>
       \/ /\ jobs' = [jobs EXCEPT ![j] = ExceptHandler(@, "OSError", now)]
          /\ now' = now + 1
    /\ pc' = [pc EXCEPT ![j] = "done"]
    /\ UNCHANGED <<env, called, order, listed, requests, rerr, rout,
                   stderr_output, child, perr, pout, cpc, cret>>

(***************************************************************************)
(* cancel_job, up to its await or its return.  terminate() on a child that *)
(* has exited raises ProcessLookupError, which is passed over.             *)
(***************************************************************************)
Ret(success, message, detail) == Some(<<success, message, detail>>)
RetNotFound == Ret(FALSE, "Job not found", "")
RetNotRunning(status) ==
    Ret(FALSE, "Job is not running (current status: {status})", status)
RetRequested == Ret(TRUE, "Job cancellation requested", "")
RetError(e) == Ret(FALSE, "Error terminating process: {e}", e)

\* cancel_job with the flag and the message set before the status is tested
cancel_job_flag_first(j) ==
    /\ j \in env.cancel
    /\ cpc[j] = "idle"
    /\ \/ /\ get_job(j) = None
          /\ cret' = [cret EXCEPT ![j] = RetNotFound]
          /\ UNCHANGED <<jobs, child, cpc>>
       \/ /\ get_job(j) # None
          /\ Job(j).status # RUNNING
          /\ jobs' = [jobs EXCEPT ![j].cancelled = TRUE,
                                  ![j].message = MsgCancelling]
          /\ cret' = [cret EXCEPT ![j] = RetNotRunning(Job(j).status)]
          /\ UNCHANGED <<child, cpc>>
       \/ /\ get_job(j) # None
          /\ Job(j).status = RUNNING
          /\ jobs' = [jobs EXCEPT ![j].cancelled = TRUE,
                                  ![j].message = MsgCancelling]
          /\ IF Job(j)._process # None /\ child[j].state = "alive"
             THEN /\ child' = [child EXCEPT ![j].sigterm = TRUE]
                  /\ cpc' = [cpc EXCEPT ![j] = "waiting"]
                  /\ UNCHANGED cret
             ELSE /\ cret' = [cret EXCEPT ![j] = RetRequested]
                  /\ UNCHANGED <<child, cpc>>
    /\ UNCHANGED <<env, called, order, listed, requests, now, pc, rerr, rout,
                   stderr_output, perr, pout>>

cancel_job(j) ==
    /\ j \in env.cancel
    /\ cpc[j] = "idle"
    /\ \/ /\ get_job(j) = None
          /\ cret' = [cret EXCEPT ![j] = RetNotFound]
          /\ UNCHANGED <<jobs, child, cpc>>
       \/ /\ get_job(j) # None
          /\ Job(j).status # RUNNING
          /\ cret' = [cret EXCEPT ![j] = RetNotRunning(Job(j).status)]
          /\ UNCHANGED <<jobs, child, cpc>>
       \/ /\ get_job(j) # None
          /\ Job(j).status = RUNNING
          /\ jobs' = [jobs EXCEPT ![j].cancelled = TRUE,
                                  ![j].message = MsgCancelling]
          /\ IF Job(j)._process # None /\ child[j].state = "alive"
             THEN /\ child' = [child EXCEPT ![j].sigterm = TRUE]
                  /\ cpc' = [cpc EXCEPT ![j] = "waiting"]
                  /\ UNCHANGED cret
             ELSE /\ cret' = [cret EXCEPT ![j] = RetRequested]
                  /\ UNCHANGED <<child, cpc>>
    /\ UNCHANGED <<env, called, order, listed, requests, now, pc, rerr, rout,
                   stderr_output, perr, pout>>

\* wait_for(job._process.wait(), timeout=5.0) returns: the child has exited
cancel_job_waited(j) ==
    /\ cpc[j] = "waiting"
    /\ child[j].state = "exited"
    /\ cpc' = [cpc EXCEPT ![j] = "idle"]
    /\ cret' = [cret EXCEPT ![j] = RetRequested]
    /\ UNCHANGED <<env, called, order, listed, requests, jobs, now, pc, rerr,
                   rout, stderr_output, child, perr, pout>>

\* the 5 seconds pass with the child alive: TimeoutError is on its way
cancel_job_timeout(j) ==
    /\ cpc[j] = "waiting"
    /\ child[j].state = "alive"
    /\ cpc' = [cpc EXCEPT ![j] = "timeout"]
    /\ UNCHANGED <<env, called, order, listed, requests, jobs, now, pc, rerr,
                   rout, stderr_output, child, perr, pout, cret>>

\* cancel_job that kills without waiting for the timeout
cancel_job_kill_at_once(j) ==
    /\ cpc[j] \in {"waiting", "timeout"}
    /\ cpc' = [cpc EXCEPT ![j] = "idle"]
    /\ IF Job(j)._process = None
       THEN /\ cret' = [cret EXCEPT ![j] = RetError("AttributeError")]
            /\ UNCHANGED child
       ELSE /\ cret' = [cret EXCEPT ![j] = RetRequested]
            /\ child' = IF child[j].state = "alive"
                        THEN [child EXCEPT ![j].state = "exited",
                                           ![j].returncode = Some(-SIGKILL)]
                        ELSE child
    /\ UNCHANGED <<env, called, order, listed, requests, jobs, now, pc, rerr,
                   rout, stderr_output, perr, pout>>

(***************************************************************************)
(* "except asyncio.TimeoutError: job._process.kill()".  By now the handle  *)
(* may have been cleared (AttributeError, reported as an error) or the     *)
(* child may have exited (ProcessLookupError, passed over).                *)
(***************************************************************************)
cancel_job_kill(j) ==
    /\ cpc[j] = "timeout"
    /\ cpc' = [cpc EXCEPT ![j] = "idle"]
    /\ IF Job(j)._process = None
       THEN /\ cret' = [cret EXCEPT ![j] = RetError("AttributeError")]
            /\ UNCHANGED child
       ELSE /\ cret' = [cret EXCEPT ![j] = RetRequested]
            /\ child' = IF child[j].state = "alive"
                        THEN [child EXCEPT ![j].state = "exited",
                                           ![j].returncode = Some(-SIGKILL)]
                        ELSE child
    /\ UNCHANGED <<env, called, order, listed, requests, jobs, now, pc, rerr,
                   rout, stderr_output, perr, pout>>

(***************************************************************************)
(* The child process (the gh-repo-stats script): it writes lines to its    *)
(* two pipes, blocking on a full pipe, exits by itself with some code, or  *)
(* is ended by SIGTERM, which it may also ignore.                          *)
(***************************************************************************)
child_write_stderr(j) ==
    /\ child[j].state = "alive"
    /\ j \in env.writers
    /\ child[j].written < env.lines
    /\ Len(perr[j]) < PipeCap
    /\ \E line \in env.stderr :
          perr' = [perr EXCEPT ![j] = Append(@, line)]
    /\ child' = [child EXCEPT ![j].written = @ + 1]
    /\ UNCHANGED <<env, called, order, listed, requests, jobs, now, pc, rerr,
                   rout, stderr_output, pout, cpc, cret>>

child_write_stdout(j) ==
    /\ child[j].state = "alive"
    /\ j \in env.writers
    /\ child[j].written < env.lines
    /\ child[j].stdout < env.stdout_lines
    /\ child[j].written >= env.stdout_after
    /\ Len(pout[j]) < PipeCap
    /\ \E line \in env.stdout :
          pout' = [pout EXCEPT ![j] = Append(@, line)]
    /\ child' = [child EXCEPT ![j].written = @ + 1, ![j].stdout = @ + 1]
    /\ UNCHANGED <<env, called, order, listed, requests, jobs, now, pc, rerr,
                   rout, stderr_output, perr, cpc, cret>>

child_exit(j) ==
    /\ child[j].state = "alive"
    /\ \E code \in {0, 1} :
          child' = [child EXCEPT ![j].state = "exited",
                                 ![j].returncode = Some(code)]
    /\ UNCHANGED <<env, called, order, listed, requests, jobs, now, pc, rerr,
                   rout, stderr_output, perr, pout, cpc, cret>>

child_terminated(j) ==
    /\ child[j].state = "alive"
    /\ child[j].sigterm
    /\ child' = [child EXCEPT ![j].state = "exited",
                              ![j].returncode = Some(-SIGTERM)]
    /\ UNCHANGED <<env, called, order, listed, requests, jobs, now, pc, rerr,
                   rout, stderr_output, perr, pout, cpc, cret>>

Next ==
    \/ \E config \in env.configs : api_analyze(config)
    \/ \E config \in env.configs : api_analyze_rejected(config)
    \/ \E j \in JobIds :
        \/ run_analysis_start(j)
        \/ run_analysis_spawned(j)
        \/ read_stderr_start(j)
        \/ read_stderr(j)
        \/ read_stdout(j)
        \/ gather(j)
        \/ process_wait(j)
        \/ cleanup(j)
        \/ cancel_job(j)
        \/ cancel_job_waited(j)
        \/ cancel_job_timeout(j)
        \/ cancel_job_kill(j)
        \/ child_write_stderr(j)
        \/ child_write_stdout(j)
        \/ child_exit(j)
        \/ child_terminated(j)

(***************************************************************************)
(* What the environment does in one universe: the job ids api_analyze      *)
(* hands out, the jobs api_cancel is called on, the jobs whose child       *)
(* writes, the configurations requested, the lines a child may write and   *)
(* how many (in all, and to stdout), how many lines it writes before its   *)
(* first line to stdout, the files it may leave behind.                    *)
(*                                                                         *)
(* Spec: one job; lines that move every field read_stderr writes.          *)
(***************************************************************************)
EnvOne ==
    [ids |-> {1},
     cancel |-> {1},
     writers |-> {1},
     configs |-> Configs \cup {Config(<<>>, <<>>)},
     stderr |-> {LineIndexed, LineIndexedOver, LineAnalyzing, LineOverrun},
     stdout |-> {LinePlain, LineOverrun},
     lines |-> MaxLines,
     stdout_lines |-> MaxLines,
     stdout_after |-> 0,
     artifacts |-> Artifacts]

Init == InitWith(EnvOne)
Spec == Init /\ [][Next]_vars

(***************************************************************************)
(* SpecLive: Spec with the fairness the event loop gives.  Every task that *)
(* can run is run: the coroutines of run_analysis, of the two readers and  *)
(* of cancel_job, and the timer of wait_for.  Nothing makes the child      *)
(* write, exit by itself or give way to SIGTERM.                           *)
(***************************************************************************)
Fairness ==
    \A j \in JobIds :
        /\ WF_vars(run_analysis_start(j))
        /\ WF_vars(run_analysis_spawned(j))
        /\ WF_vars(read_stderr_start(j))
        /\ WF_vars(read_stderr(j))
        /\ WF_vars(read_stdout(j))
        /\ WF_vars(gather(j))
        /\ WF_vars(process_wait(j))
        /\ WF_vars(cleanup(j))
        /\ WF_vars(cancel_job_waited(j))
        /\ WF_vars(cancel_job_timeout(j))
        /\ WF_vars(cancel_job_kill(j))

SpecLive == Init /\ [][Next]_vars /\ Fairness

(***************************************************************************)
(* SpecFlood: one job whose child writes FloodLines lines to stderr.       *)
(***************************************************************************)
EnvFlood ==
    [ids |-> {1},
     cancel |-> {1},
     writers |-> {1},
     configs |-> {Config(<<"org1">>, <<>>), Config(<<>>, <<>>)},
     stderr |-> {LinePlain},
     stdout |-> {LineBlank},
     lines |-> FloodLines,
     stdout_lines |-> 1,
     stdout_after |-> 0,
     artifacts |-> {CsvFile(<<>>)}]

InitFlood == InitWith(EnvFlood)
SpecFlood == InitFlood /\ [][Next]_vars

(***************************************************************************)
(* SpecJobs: two jobs requested with the same configuration, running side  *)
(* by side.  The first is the one cancelled and the one whose child writes *)
(* (one line); the second child is silent.                                 *)
(***************************************************************************)
EnvTwo ==
    [ids |-> {1, 2},
     cancel |-> {1},
     writers |-> {1},
     configs |-> {Config(<<"org1">>, <<>>), Config(<<>>, <<>>)},
     stderr |-> {LineIndexed},
     stdout |-> {LinePlain},
     lines |-> 1,
     stdout_lines |-> 1,
     stdout_after |-> 0,
     artifacts |-> {CsvFile(<<RowOne>>)}]

InitJobs == InitWith(EnvTwo)
SpecJobs == InitJobs /\ [][Next]_vars

(***************************************************************************)
(* SpecTail: one job that nobody cancels; its child writes TailLines       *)
(* lines, blank or not, to stderr and nothing to stdout.  NextStderr is   *)
(* Next without the steps that cannot happen then.                         *)
(***************************************************************************)
EnvTail ==
    [ids |-> {1},
     cancel |-> {},
     writers |-> {1},
     configs |-> {Config(<<"org1">>, <<>>), Config(<<>>, <<>>)},
     stderr |-> {LinePlain, LineBlank},
     stdout |-> {},
     lines |-> TailLines,
     stdout_lines |-> 0,
     stdout_after |-> 0,
     artifacts |-> {CsvFile(<<RowOne>>)}]

InitTail == InitWith(EnvTail)

NextStderr ==
    \/ \E config \in env.configs : api_analyze(config)
    \/ \E config \in env.configs : api_analyze_rejected(config)
    \/ \E j \in JobIds :
        \/ run_analysis_start(j)
        \/ run_analysis_spawned(j)
        \/ read_stderr_start(j)
        \/ read_stderr(j)
        \/ read_stdout(j)
        \/ gather(j)
        \/ process_wait(j)
        \/ cleanup(j)
        \/ child_write_stderr(j)
        \/ child_exit(j)

SpecTail == InitTail /\ [][NextStderr]_vars

(***************************************************************************)
(* get_all_jobs and get_recent_jobs.  list(_jobs.values()) is the records  *)
(* in insertion order; list.sort(key=..., reverse=True) is stable: records *)
(* with equal keys keep their order.  A record that has not started sorts  *)
(* as datetime.min, which is before every reading of the clock.            *)
(***************************************************************************)
datetime_min == 0

values == [i \in 1..Len(order) |-> jobs[order[i]]]

\* "j.started_at or datetime.min" with datetime.max in the place of min
started_key_max(job) ==
    IF job.started_at = None THEN 99 ELSE Get(job.started_at)

\* lambda j: j.started_at or datetime.min
started_key(job) ==
    IF job.started_at = None THEN datetime_min ELSE Get(job.started_at)

\* seq.sort(key=started_key, reverse=True)
sort_reverse(seq) ==
    LET n == Len(seq)
        Rank(i) == 1 + Cardinality({k \in 1..n :
                        \/ started_key(seq[k]) > started_key(seq[i])
                        \/ /\ started_key(seq[k]) = started_key(seq[i])
                           /\ k < i})
    IN  [p \in 1..n |-> seq[CHOOSE i \in 1..n : Rank(i) = p]]

get_all_jobs == sort_reverse(values)

\* seq[:limit]
Slice(seq, limit) ==
    LET n == Len(seq)
        stop == IF limit >= n THEN n
                ELSE IF limit >= 0 THEN limit
                ELSE IF n + limit >= 0 THEN n + limit
                ELSE 0
    IN  SubSeq(seq, 1, stop)

get_recent_jobs(limit) ==
    /\ listed' = <<limit, Slice(get_all_jobs, limit)>>
    /\ UNCHANGED <<env, called, jobs, now, pc, rerr, rout, stderr_output,
                   child, perr, pout, cpc, cret, requests, order>>

(***************************************************************************)
(* SpecList: get_recent_jobs on every registry of up to MaxJobs records,   *)
(* in every insertion order, each record not started yet or started at one *)
(* of two times (two records may have started at the same time).           *)
(***************************************************************************)
ListIds == 1..MaxJobs
StartTimes == {None, Some(1), Some(2)}
Orders ==
    UNION {{o \in [1..n -> ListIds] :
                \A a, b \in 1..n : a # b => o[a] # o[b]} : n \in 0..MaxJobs}

InitList ==
    /\ env = EnvOne
    /\ \E o \in Orders, started \in [ListIds -> StartTimes] :
          /\ order = o
          /\ jobs = [j \in {o[i] : i \in 1..Len(o)} |->
                        IF started[j] = None
                        THEN AnalysisJob(j, Config(<<"org1">>, <<>>))
                        ELSE Prepared(AnalysisJob(j, Config(<<"org1">>, <<>>)),
                                      Get(started[j]))]
    /\ listed = <<>>
    /\ called = <<>>
    /\ now = 3
    /\ pc = [j \in JobIds |-> "none"]
    /\ rerr = [j \in JobIds |-> "none"]
    /\ rout = [j \in JobIds |-> "none"]
    /\ stderr_output = [j \in JobIds |-> <<>>]
    /\ child = [j \in JobIds |-> NoChild]
    /\ perr = [j \in JobIds |-> <<>>]
    /\ pout = [j \in JobIds |-> <<>>]
    /\ cpc = [j \in JobIds |-> "idle"]
    /\ cret = [j \in JobIds |-> None]
    /\ requests = 0

NextList == \E limit \in 0..(MaxJobs + 1) : get_recent_jobs(limit)

SpecList == InitList /\ [][NextList]_vars

(***************************************************************************)
(* SpecParse: one job that nobody cancels; its child writes up to MaxLines *)
(* lines of any of the kinds above to stderr and nothing to stdout.        *)
(***************************************************************************)
EnvParse ==
    [ids |-> {1},
     cancel |-> {},
     writers |-> {1},
     configs |-> Configs \cup {Config(<<>>, <<>>)},
     stderr |-> StderrLines,
     stdout |-> {},
     lines |-> MaxLines,
     stdout_lines |-> 0,
     stdout_after |-> 0,
     artifacts |-> {CsvFile(<<RowOne>>)}]

InitParse == InitWith(EnvParse)
SpecParse == InitParse /\ [][NextStderr]_vars

(***************************************************************************)
(* SpecCsv: the three functions on bounded inputs.  The files have the     *)
(* header below and up to MaxRows lines; a line is blank or holds the      *)
(* first one to four cells (so it may be short), each cell one of a few    *)
(* texts.  The records given to results_to_csv are up to MaxRows records   *)
(* with the same keys, integers under Record_Count and booleans under      *)
(* Is_Empty.                                                               *)
(***************************************************************************)
CsvHeader == <<"Is_Empty", "Record_Count", "Has_Wiki", "Migration_Issue">>
CsvCells ==
    <<{<<"T", "r", "u", "e">>, <<"f", "a", "l", "s", "e">>},
      {<<"7">>, <<"-", "3">>, <<"a", "b", "c">>, <<>>},
      {<<"T", "R", "U", "E">>},
      {<<"T", "R", "U", "E">>, <<"F", "A", "L", "S", "E">>}>>
CsvLines ==
    {<<>>} \cup
    UNION {{line \in [1..n -> UNION {CsvCells[i] : i \in 1..4}] :
                \A i \in 1..n : line[i] \in CsvCells[i]} : n \in 1..4}
SeqsUpTo(S, n) == UNION {[1..k -> S] : k \in 0..n}
CsvFiles ==
    {[readable |-> FALSE, rows |-> <<>>]}
        \cup {StringFile(CsvText(CsvHeader, lines)) :
                lines \in SeqsUpTo(CsvLines, MaxRows)}

TypedKeys == {{"Record_Count"}, {"Is_Empty"}, {"Record_Count", "Is_Empty"}}
TypedValues(f) ==
    IF f = "Record_Count" THEN {<<"int", n>> : n \in {-3, 0, 7, 10}}
    ELSE {<<"bool", b>> : b \in BOOLEAN}
TypedRecords(K) == {r \in [K -> UNION {TypedValues(f) : f \in K}] :
                        \A f \in K : r[f] \in TypedValues(f)}
TypedResults == UNION {SeqsUpTo(TypedRecords(K), MaxRows) : K \in TypedKeys}

NextCsv ==
    \/ parse_csv_results_call(CsvFiles)
    \/ calculate_summary_call
    \/ results_to_csv_call(TypedResults)

SpecCsv == Init /\ [][NextCsv]_vars

(***************************************************************************)
(* SpecStreams: one job that nobody cancels; its child writes FloodLines   *)
(* lines, one of them to stdout, late in its run, the others to stderr.    *)
(* NextStreams is Next without the steps of cancel_job.                    *)
(***************************************************************************)
EnvStreams ==
    [ids |-> {1},
     cancel |-> {},
     writers |-> {1},
     configs |-> {Config(<<"org1">>, <<>>), Config(<<>>, <<>>)},
     stderr |-> {LinePlain},
     stdout |-> {LinePlain},
     lines |-> FloodLines,
     stdout_lines |-> 1,
     stdout_after |-> FloodLines - 3,
     artifacts |-> {CsvFile(<<>>)}]

InitStreams == InitWith(EnvStreams)

NextStreams ==
    \/ \E config \in env.configs : api_analyze(config)
    \/ \E config \in env.configs : api_analyze_rejected(config)
    \/ \E j \in JobIds :
        \/ run_analysis_start(j)
        \/ run_analysis_spawned(j)
        \/ read_stderr_start(j)
        \/ read_stderr(j)
        \/ read_stdout(j)
        \/ gather(j)
        \/ process_wait(j)
        \/ cleanup(j)
        \/ child_write_stderr(j)
        \/ child_write_stdout(j)
        \/ child_exit(j)

SpecStreams == InitStreams /\ [][NextStreams]_vars

Terminal(j) == Exists(j) /\ Job(j).status \in {COMPLETED, FAILED}

(***************************************************************************)
(* C1: once a job's status is COMPLETED or FAILED it never changes again.  *)
(***************************************************************************)
C1_TerminalStatusNeverChanges ==
    [][\A j \in JobIds :
          Terminal(j) => jobs'[j].status = jobs[j].status]_vars

(***************************************************************************)
(* C2: whenever cancel_job has been accepted on a RUNNING job (the flag    *)
(* job.cancelled is set), the child process is eventually gone and the job *)
(* is eventually FAILED.                                                   *)
(***************************************************************************)
C2_CancelLeadsToFailed ==
    \A j \in JobIds :
        [](Exists(j) /\ Job(j).cancelled
            => <>(/\ child[j].state # "alive"
                  /\ Exists(j)
                  /\ Job(j).status = FAILED))

(***************************************************************************)
(* C3: a cancel_job call on a job that is not RUNNING returns failure with *)
(* the "Job is not running" message and changes no field of any record.    *)
(***************************************************************************)
C3_CancelNotRunningChangesNothing ==
    [][\A j \in JobIds :
          (cancel_job(j) /\ Exists(j) /\ Job(j).status # RUNNING)
              => /\ jobs' = jobs
                 /\ cret'[j] = RetNotRunning(Job(j).status)]_vars

C3_Witness ==
    \E j \in JobIds :
        /\ Exists(j)
        /\ Job(j).status = COMPLETED
        /\ cret[j] = RetNotRunning(COMPLETED)
        /\ ~Job(j).cancelled

C5_HandleOnlyWhileRunning ==
    \A j \in DOMAIN jobs : Job(j)._process # None => Job(j).status = RUNNING

(***************************************************************************)
(* C6: whenever a job's status is COMPLETED or FAILED, completed_at is set *)
(* and current_repo is empty.                                              *)
(***************************************************************************)
C6_TerminalFieldsCleared ==
    \A j \in JobIds :
        Terminal(j) => Job(j).completed_at # None /\ Job(j).current_repo = None

(***************************************************************************)
(* C7: output_lines never holds more than 500 lines.                       *)
(***************************************************************************)
C7_OutputLinesBounded ==
    \A j \in DOMAIN jobs : Len(Job(j).output_lines) <= OutputKeep

(***************************************************************************)
(* C8: while a job is RUNNING its progress never decreases.                *)
(***************************************************************************)
C8_ProgressMonotonic ==
    [][\A j \in DOMAIN jobs :
          (Job(j).status = RUNNING /\ jobs'[j].status = RUNNING)
              => jobs'[j].progress >= Job(j).progress]_vars

(***************************************************************************)
(* C9: progress is always within 0..100 and processed_repos is never       *)
(* negative.                                                               *)
(***************************************************************************)
C9_ProgressInRange ==
    \A j \in DOMAIN jobs :
        Job(j).progress \in 0..100 /\ Job(j).processed_repos >= 0

(***************************************************************************)
(* C10: results is non-empty only if the status is COMPLETED.              *)
(***************************************************************************)
C10_ResultsOnlyWhenCompleted ==
    \A j \in DOMAIN jobs : Job(j).results # <<>> => Job(j).status = COMPLETED

(***************************************************************************)
(* C11: every create_job call registers a PENDING record under an          *)
(* identifier that was not in the registry, the registry maps every        *)
(* identifier to the one record carrying it, and no step replaces or       *)
(* removes a record when a job is created.                                 *)
(***************************************************************************)
C11_CreateJobFreshPending ==
    [][/\ DOMAIN jobs \subseteq DOMAIN jobs'
       /\ \A j \in DOMAIN jobs' : jobs'[j].job_id = j
       /\ \A j \in DOMAIN jobs' \ DOMAIN jobs :
             /\ jobs'[j] = AnalysisJob(j, jobs'[j].config)
             /\ jobs'[j].status = PENDING
             /\ DOMAIN jobs' = DOMAIN jobs \cup {j}
             /\ \A k \in DOMAIN jobs : jobs'[k] = jobs[k]
       /\ (\E config \in env.configs : api_analyze(config))
             => Cardinality(DOMAIN jobs') = Cardinality(DOMAIN jobs) + 1]_vars

C11_Witness ==
    /\ DOMAIN jobs = {1, 2}
    /\ \E j \in {1, 2} :
          /\ jobs[j].status = PENDING
          /\ jobs[3 - j].status \in {RUNNING, COMPLETED, FAILED}
          /\ jobs[j].config = jobs[3 - j].config

(***************************************************************************)
(* C12: a step of one job (its run_analysis task, its readers, a           *)
(* cancel_job call on it, its child) leaves the registry's keys, every     *)
(* other job's record and every other job's task, pipes and child as they  *)
(* were, also when the jobs have the same configuration.                   *)
(***************************************************************************)
C12_JobsDoNotInterfere ==
    [][\A j \in JobIds :
          (\/ run_analysis_start(j) \/ run_analysis_spawned(j)
           \/ read_stderr_start(j) \/ read_stderr(j) \/ read_stdout(j)
           \/ gather(j) \/ process_wait(j) \/ cleanup(j)
           \/ cancel_job(j) \/ cancel_job_waited(j)
           \/ cancel_job_timeout(j) \/ cancel_job_kill(j)
           \/ child_write_stderr(j) \/ child_write_stdout(j)
           \/ child_exit(j) \/ child_terminated(j))
          => /\ DOMAIN jobs' = DOMAIN jobs
             /\ \A k \in DOMAIN jobs \ {j} : jobs'[k] = jobs[k]
             /\ \A k \in JobIds \ {j} :
                   /\ pc'[k] = pc[k]
                   /\ rerr'[k] = rerr[k]
                   /\ rout'[k] = rout[k]
                   /\ stderr_output'[k] = stderr_output[k]
                   /\ child'[k] = child[k]
                   /\ perr'[k] = perr[k]
                   /\ pout'[k] = pout[k]
                   /\ cpc'[k] = cpc[k]
                   /\ cret'[k] = cret[k]]_vars

C12_Witness ==
    /\ DOMAIN jobs = {1, 2}
    /\ jobs[1].config = jobs[2].config
    /\ jobs[1].status = FAILED
    /\ jobs[1].cancelled
    /\ stderr_output[1] # <<>>
    /\ jobs[2].status = RUNNING
    /\ jobs[2].message = MsgRunning
    /\ ~jobs[2].cancelled
    /\ stderr_output[2] = <<>>

(***************************************************************************)
(* C13: a job is COMPLETED or FAILED only when both of its stream readers  *)
(* have finished (returned or raised): no reader is still running in a     *)
(* terminal state.                                                         *)
(***************************************************************************)
C13_ReadersDoneBeforeTerminal ==
    \A j \in JobIds :
        Terminal(j) => /\ rerr[j] \in {"none", "done", "raised"}
                       /\ rout[j] \in {"none", "done", "raised"}

(***************************************************************************)
(* C14: every step in which run_analysis leaves its "try" by an exception  *)
(* (while preparing, launching, supervising or leaving the temporary       *)
(* directory) ends the task normally with the job FAILED, str(e) appended  *)
(* to job.errors and the message naming it; once the task has ended the    *)
(* status stays as it is.                                                  *)
(***************************************************************************)
C14_ExceptionsContained ==
    [][\A j \in DOMAIN jobs :
          /\ (/\ pc[j] \in {"start", "spawn", "gather", "cleanup"}
              /\ pc'[j] \notin {"spawn", "gather", "wait"}
              /\ jobs'[j] # jobs[j])
                => /\ pc'[j] = "done"
                   /\ jobs'[j].status = FAILED
                   /\ jobs'[j].completed_at # None
                   /\ \E e \in {"OSError", "FileNotFoundError", "ValueError"} :
                         /\ jobs'[j].errors =
                               Append(jobs[j].errors, Err("exception", 0, <<e>>))
                         /\ jobs'[j].message = MsgException(e)
          /\ pc[j] = "done"
                => pc'[j] = "done" /\ jobs'[j].status = jobs[j].status]_vars

C14_Witness ==
    \E j \in DOMAIN jobs :
        /\ pc[j] = "done"
        /\ jobs[j].status = FAILED
        /\ jobs[j].errors = <<Err("exception", 0, <<"ValueError">>)>>
        /\ jobs[j].message = MsgException("ValueError")
        /\ child[j].state = "alive"

C16_NonZeroExitFails ==
    [][\A j \in DOMAIN jobs :
          (/\ pc[j] = "wait"
           /\ pc'[j] # "wait"
           /\ ~jobs[j].cancelled
           /\ child[j].returncode # Some(0))
            => LET out == stderr_output[j]
                   old == Len(jobs[j].errors)
                   new == jobs'[j].errors
                   n == IF Len(out) < 10 THEN Len(out) ELSE 10
               IN  /\ jobs'[j].status = FAILED
                   /\ jobs'[j].message = MsgFailed
                   /\ jobs'[j].results = <<>>
                   /\ SubSeq(new, 1, old) = jobs[j].errors
                   /\ new[old + 1] = Err("Script failed with code",
                                         Get(child[j].returncode), <<>>)
                   /\ Len(new) = IF out = <<>> THEN old + 1 ELSE old + 2
                   /\ out # <<>> =>
                         /\ new[old + 2].kind = "tail"
                         /\ Len(new[old + 2].tail) = n
                         /\ \A i \in 1..n :
                               new[old + 2].tail[i] = out[Len(out) - n + i]]_vars

C16_Witness ==
    \E j \in DOMAIN jobs :
        /\ jobs[j].status = FAILED
        /\ Len(stderr_output[j]) = 11
        /\ stderr_output[j][1] = ""
        /\ \A i \in 2..11 : stderr_output[j][i] # ""
        /\ Len(jobs[j].errors) = 2
        /\ jobs[j].errors[1] = Err("Script failed with code", 1, <<>>)
        /\ jobs[j].errors[2].tail = SubSeq(stderr_output[j], 2, 11)
        /\ jobs[j].results = <<>>

(***************************************************************************)
(* C17: a request without organizations creates no job, schedules no       *)
(* run_analysis task and starts no child; every job in the registry, and   *)
(* so every job that becomes RUNNING or gets a child, has at least one     *)
(* organization.                                                           *)
(***************************************************************************)
C17_NoOrganizationsRejected ==
    [][/\ (\E config \in env.configs : api_analyze_rejected(config))
            => UNCHANGED <<jobs, pc, child, rerr, rout>>
       /\ \A j \in DOMAIN jobs' : jobs'[j].config.organizations # <<>>
       /\ \A j \in JobIds :
            (\/ child'[j].state # "none"
             \/ pc'[j] \notin {"none", "start"}
             \/ (j \in DOMAIN jobs' /\ jobs'[j].status # PENDING))
                => /\ j \in DOMAIN jobs'
                   /\ jobs'[j].config.organizations # <<>>]_vars

C17_Witness ==
    /\ requests = 1
    /\ jobs = <<>>
    /\ \A j \in JobIds : pc[j] = "none" /\ child[j].state = "none"

(***************************************************************************)
(* C18: get_recent_jobs(limit), limit >= 0, returns min(limit, n) distinct *)
(* records of the registry, ordered by started_at descending, every record *)
(* without started_at after every record that has one.                     *)
(***************************************************************************)
C18_RecentJobsOrdered ==
    listed # <<>> =>
        LET limit == listed[1]
            r == listed[2]
        IN  /\ Len(r) <= limit
            /\ Len(r) = IF limit < Len(order) THEN limit ELSE Len(order)
            /\ \A a \in 1..Len(r) :
                  r[a].job_id \in DOMAIN jobs /\ r[a] = jobs[r[a].job_id]
            /\ \A a, b \in 1..Len(r) :
                  a < b =>
                    /\ r[a].job_id # r[b].job_id
                    /\ r[a].started_at = None => r[b].started_at = None
                    /\ (r[a].started_at # None /\ r[b].started_at # None)
                          => Get(r[a].started_at) >= Get(r[b].started_at)

C18_Witness ==
    /\ Len(order) = 3
    /\ jobs[order[1]].started_at = None
    /\ jobs[order[2]].started_at = Some(1)
    /\ jobs[order[3]].started_at = Some(2)
    /\ listed = <<3, <<jobs[order[3]], jobs[order[2]], jobs[order[1]]>>>>

(***************************************************************************)
(* C19: when read_stderr handles a line "Processing N/M: name" with M > 0, *)
(* it sets processed_repos = N, total_repos = M, current_repo = name and   *)
(* progress = floor(N * 100 / M).                                          *)
(***************************************************************************)
C19_IndexedLineProgress ==
    [][\A j \in DOMAIN jobs :
          (/\ read_stderr(j)
           /\ perr[j] # <<>>
           /\ IsSome(Head(perr[j]).repo_pattern)
           /\ Get(Head(perr[j]).repo_pattern)[2] > 0
           /\ IsSome(Get(Head(perr[j]).repo_pattern)[3]))
            => LET g == Get(Head(perr[j]).repo_pattern)
               IN  /\ jobs'[j].processed_repos = g[1]
                   /\ jobs'[j].total_repos = g[2]
                   /\ jobs'[j].current_repo = g[3]
                   /\ jobs'[j].progress = (g[1] * 100) \div g[2]]_vars

(***************************************************************************)
(* C20: when read_stderr handles a line "Found N repositor..." (not an     *)
(* indexed line), it sets total_repos = N and leaves processed_repos,      *)
(* progress and current_repo as they were.                                 *)
(***************************************************************************)
C20_FoundLineSetsTotalOnly ==
    [][\A j \in DOMAIN jobs :
          (/\ read_stderr(j)
           /\ perr[j] # <<>>
           /\ Head(perr[j]).repo_pattern = None
           /\ IsSome(Head(perr[j]).total_pattern))
            => /\ jobs'[j].total_repos = Get(Head(perr[j]).total_pattern)
               /\ jobs'[j].processed_repos = jobs[j].processed_repos
               /\ jobs'[j].progress = jobs[j].progress
               /\ jobs'[j].current_repo = jobs[j].current_repo]_vars

C20_Witness ==
    \E j \in DOMAIN jobs :
        /\ jobs[j].status = RUNNING
        /\ stderr_output[j] = <<LineIndexed.text, LineFoundAnalyzing.text>>
        /\ jobs[j].total_repos = 1
        /\ jobs[j].processed_repos = 1
        /\ jobs[j].progress = 50
        /\ jobs[j].current_repo = Some("a")

(***************************************************************************)
(* C21: when read_stderr handles a line that none of the three patterns    *)
(* matches, processed_repos, total_repos, progress, current_repo and       *)
(* message stay as they were; the line, if not empty, becomes the last     *)
(* entry of output_lines, and an empty line leaves output_lines alone.     *)
(***************************************************************************)
C21_UnmatchedLineChangesNothing ==
    [][\A j \in DOMAIN jobs :
          (/\ read_stderr(j)
           /\ perr[j] # <<>>
           /\ ~Head(perr[j]).overrun
           /\ Head(perr[j]).repo_pattern = None
           /\ Head(perr[j]).total_pattern = None
           /\ Head(perr[j]).repo_name_pattern = None)
            => LET text == Head(perr[j]).text
                   old == jobs[j].output_lines
                   new == jobs'[j].output_lines
               IN  /\ jobs'[j].processed_repos = jobs[j].processed_repos
                   /\ jobs'[j].total_repos = jobs[j].total_repos
                   /\ jobs'[j].progress = jobs[j].progress
                   /\ jobs'[j].current_repo = jobs[j].current_repo
                   /\ jobs'[j].message = jobs[j].message
                   /\ text = "" => new = old
                   /\ text # "" =>
                         /\ new # <<>>
                         /\ new[Len(new)] = OutLine("", text)
                         /\ Len(old) < OutputKeep =>
                               new = Append(old, OutLine("", text))]_vars

C21_Witness ==
    \E j \in DOMAIN jobs :
        /\ jobs[j].status = RUNNING
        /\ stderr_output[j] = <<LineIndexed.text, LinePlain.text>>
        /\ jobs[j].processed_repos = 1
        /\ jobs[j].total_repos = 2
        /\ jobs[j].progress = 50
        /\ jobs[j].current_repo = Some("a")
        /\ jobs[j].message = Msg("Processing {p}/{t}: {repo}", 1, 2, "a")
        /\ jobs[j].output_lines =
              <<OutLine("", LineIndexed.text), OutLine("", LinePlain.text)>>

(***************************************************************************)
(* C22: parse_csv_results raises nothing, and returns the empty list for   *)
(* a file that cannot be read or that has a line too short to give a       *)
(* boolean column its value - not the records of the lines before it.      *)
(***************************************************************************)
C22_MalformedFileGivesEmpty ==
    (called # <<>> /\ called.fn = "parse_csv_results") =>
        LET rows == called.arg.rows
            short == \E k \in 1..Len(rows) :
                        \E f \in bool_fields \cap DOMAIN rows[k] :
                            rows[k][f] = None
        IN  /\ \A k \in 1..Len(called.ret) :
                  DOMAIN called.ret[k] = DOMAIN rows[k]
            /\ (~called.arg.readable \/ short) => called.ret = <<>>

(***************************************************************************)
(* C23: calculate_summary, given what parse_csv_results returned, raises   *)
(* nothing; total_repos is the number of records, each sum counts a        *)
(* missing, None or empty field as zero, and for no record every field is  *)
(* 0.                                                                      *)
(***************************************************************************)
C23_SummaryNeverFails ==
    (called # <<>> /\ called.fn = "calculate_summary") =>
        LET results == called.arg
            summary == called.ret
            Value(k, f) ==
                IF f \in DOMAIN results[k] /\ results[k][f][1] = "int"
                THEN results[k][f][2] ELSE 0
            Total(f) == SumTerms([k \in 1..Len(results) |->
                                    <<"int", Value(k, f)>>])
        IN  /\ "raised" \notin DOMAIN summary
            /\ summary.total_repos = Len(results)
            /\ summary.total_size_mb = Total("Repo_Size(mb)")
            /\ summary.total_prs = Total("PR_Count")
            /\ summary.total_issues = Total("Issue_Count")
            /\ results = <<>> =>
                  \A f \in DOMAIN summary : summary[f] = 0
            /\ results # <<>> =>
                  summary.avg_record_count
                      = round(Total("Record_Count"), Len(results))

(***************************************************************************)
(* C24: results_to_csv of no record is the empty string; for records with  *)
(* the same keys, integers under a numeric column and booleans under a     *)
(* boolean column, parse_csv_results of the text written gives the records *)
(* back, integers as integers and booleans as booleans, and writing those  *)
(* gives the same text.                                                    *)
(***************************************************************************)
C24_CsvRoundTrip ==
    (called # <<>> /\ called.fn = "results_to_csv") =>
        LET results == called.arg
            text == called.ret
            back == parse_csv_results(StringFile(text))
        IN  /\ results = <<>> => text = EmptyText
            /\ results # <<>> =>
                  /\ "raised" \notin DOMAIN text
                  /\ Len(text.lines) = Len(results)
                  /\ back = results
                  /\ results_to_csv(back) = text

C24_Witness ==
    /\ called # <<>>
    /\ called.fn = "results_to_csv"
    /\ called.arg =
          <<[Record_Count |-> <<"int", -3>>, Is_Empty |-> <<"bool", TRUE>>],
            [Record_Count |-> <<"int", 10>>, Is_Empty |-> <<"bool", FALSE>>]>>
    /\ called.ret =
          CsvText(<<"Is_Empty", "Record_Count">>,
                  <<<<<<"T", "r", "u", "e">>, <<"-", "3">>>>,
                    <<<<"F", "a", "l", "s", "e">>, <<"1", "0">>>>>>)

(***************************************************************************)
(* C25: once job.cancelled is set, each reader sees the flag at its next   *)
(* iteration and stops: a reader that handles a line while the flag is set *)
(* is no longer reading after it, so that read_stderr and read_stdout each *)
(* apply at most one more line to the job.                                 *)
(***************************************************************************)
C25_ReadersStopOnCancel ==
    [][\A j \in DOMAIN jobs :
          jobs[j].cancelled =>
            /\ (read_stderr(j) /\ perr[j] # <<>>) => rerr'[j] # "reading"
            /\ (read_stdout(j) /\ pout[j] # <<>>) => rout'[j] # "reading"]_vars

(***************************************************************************)
(* C26: cancel_job kills the child only after it has sent SIGTERM and the  *)
(* wait for the child's exit has timed out with the child still alive; a   *)
(* child that exits during the wait is not killed, and no child is killed  *)
(* that was not sent SIGTERM before.                                       *)
(***************************************************************************)
C26_KillOnlyAfterTerminateAndTimeout ==
    [][\A j \in JobIds :
          /\ (child'[j].returncode = Some(-SIGKILL)
                /\ child[j].returncode # Some(-SIGKILL))
                => /\ child[j].sigterm
                   /\ child[j].state = "alive"
                   /\ cpc[j] = "timeout"
          /\ cancel_job_waited(j)
                => /\ child' = child
                   /\ child[j].returncode # Some(-SIGKILL)
                   /\ cpc'[j] = "idle"
          /\ child'[j].returncode = Some(-SIGKILL) => child'[j].sigterm]_vars

C26_Witness ==
    \E j \in JobIds :
        /\ child[j].returncode = Some(-SIGKILL)
        /\ child[j].sigterm
        /\ cpc[j] = "idle"
        /\ cret[j] = RetRequested

C28_FirstMatchWins ==
    [][\A j \in DOMAIN jobs :
          (read_stderr(j) /\ perr[j] # <<>> /\ ~Head(perr[j]).overrun) =>
            LET line == Head(perr[j])
                old == jobs[j]
                new == jobs'[j]
            IN  /\ IsSome(line.repo_pattern) =>
                    LET g == Get(line.repo_pattern)
                    IN  /\ new.processed_repos = g[1]
                        /\ new.total_repos = g[2]
                        /\ new.current_repo =
                              IF IsSome(g[3]) THEN g[3] ELSE old.current_repo
                        /\ new.message[1] = "Processing {p}/{t}: {repo}"
                /\ (line.repo_pattern = None /\ IsSome(line.total_pattern)) =>
                        /\ new.total_repos = Get(line.total_pattern)
                        /\ new.processed_repos = old.processed_repos
                        /\ new.current_repo = old.current_repo
                        /\ new.progress = old.progress
                        /\ new.message[1]
                              = "Found {t} repositories to analyze..."
                /\ (/\ line.repo_pattern = None
                    /\ line.total_pattern = None
                    /\ IsSome(line.repo_name_pattern)) =>
                        /\ new.total_repos = old.total_repos
                        /\ new.processed_repos = old.processed_repos + 1
                        /\ new.current_repo = line.repo_name_pattern
                        /\ new.message[1] = "Analyzing: {repo}"]_vars

C28_Witness ==
    \E j \in DOMAIN jobs :
        /\ stderr_output[j] = <<LineFoundAnalyzing.text, LineAllThree.text>>
        /\ jobs[j].processed_repos = 2
        /\ jobs[j].total_repos = 2
        /\ jobs[j].progress = 100
        /\ jobs[j].current_repo = Some("analyzing 'e'")
        /\ jobs[j].message =
              Msg("Processing {p}/{t}: {repo}", 2, 2, "analyzing 'e'")

C30_CancelledNeverCompleted ==
    \A j \in DOMAIN jobs : Job(j).status = COMPLETED => ~Job(j).cancelled

C30_Witness ==
    \E j \in DOMAIN jobs :
        /\ Job(j).cancelled
        /\ cret[j] = RetRequested
        /\ ~child[j].sigterm
        /\ child[j].returncode = Some(0)
        /\ pc[j] = "done"
        /\ Job(j).status = FAILED
        /\ Job(j).results = <<>>

(***************************************************************************)
(* C31: whenever a job's status is COMPLETED or FAILED, its child process, *)
(* if one was started, has exited.                                         *)
(***************************************************************************)
C31_NoChildLeftAlive ==
    \A j \in JobIds : Terminal(j) => child[j].state # "alive"

(***************************************************************************)
(* C32: a cancel_job call that returns failure (job not found, job not     *)
(* RUNNING, error while terminating the process) leaves job.cancelled and  *)
(* job.message as they were before the call.  For a call that returns in   *)
(* the step it was made, before is the state of that step; for the first   *)
(* call made on a job, job.cancelled was not set before.                   *)
(***************************************************************************)
C32_FailedCancelLeavesNoTrace ==
    [][\A j \in JobIds :
          LET returned == \/ cancel_job(j) /\ cpc'[j] = "idle"
                          \/ cancel_job_waited(j)
                          \/ cancel_job_kill(j)
          IN  (returned /\ ~Get(cret'[j])[1]) =>
                /\ (cpc[j] = "idle" /\ Exists(j)) =>
                      /\ jobs'[j].cancelled = jobs[j].cancelled
                      /\ jobs'[j].message = jobs[j].message
                /\ (cpc[j] # "idle" /\ cret[j] = None) =>
                      ~jobs'[j].cancelled]_vars

====
